---- MODULE Spec2Model ----
(***************************************************************************)
(* A model of the audio streaming proxy: the Node.js programs server.js,   *)
(* part_000, part_001, part_002 and multifile.js.  Each program spawns a   *)
(* fetcher (yt-dlp) and a transcoder (ffmpeg), wires them to an HTTP       *)
(* response and releases them with cleanup().  The programs share the      *)
(* module-level slots ytDlpProcess / ffmpegProcess and the shape of their  *)
(* handlers, so they share the state below; each program has its own       *)
(* next-state relation and specification.                                  *)
(*                                                                         *)
(* The event loop runs one callback at a time, so one action is one whole  *)
(* callback.  The library calls the handlers make are modelled by what     *)
(* Node and Express document for them:                                     *)
(*   res.write(chunk)  sends the headers implicitly and appends the chunk; *)
(*                     on an ended or destroyed response it writes nothing *)
(*                     and returns false;                                  *)
(*   res.end()         sends the headers and finishes the response;        *)
(*   res.status(c).send(body)  throws ERR_HTTP_HEADERS_SENT once the       *)
(*                     headers are sent, as does res.setHeader();          *)
(*   an exception thrown out of a callback is uncaught: the server dies.   *)
(***************************************************************************)
EXTENDS Integers, Sequences, FiniteSets, TLC

\* ---------------------------------------------------------------- bounds
MaxJobs == 2
MaxChunks == 2
MaxStops == 1
MaxSpawns == 3
MaxSources == 2
MaxFetchers == 4

\* ------------------------------------------------------------- constants
Null == 0
NoCode == -1

VARIABLES
  ytDlpProcess,   \* module-level slot: a pid or Null
  ffmpegProcess,  \* module-level slot: a pid or Null
  procs,          \* every process spawned so far, by pid
  res,            \* the response of each /audio job
  crashed,        \* an exception escaped a callback
  stops,          \* /stop-stream requests served
  jobs,           \* the closure state of each startStreaming call
  cache,          \* part_002: the keys that have a file in cacheDir
  ytDlpProcesses, \* multifile.js: the module-level list of fetchers
  files           \* multifile.js: the temporary files in the working directory

vars == <<ytDlpProcess, ffmpegProcess, procs, res, crashed, stops, jobs,
          cache, ytDlpProcesses, files>>

\* what server.js, part_000 and part_001 do not have
others == <<cache, ytDlpProcesses, files>>

Jobs == 1..MaxJobs
Keys == {"a", "b"}
\* req.query.videoId split on ",": no videoId, or up to MaxSources identifiers
Requests == UNION {[1..n -> Keys] : n \in 0..MaxSources}
Pids == 1..Len(procs)

\* ------------------------------------------------------------ processes
\* spawn(): a live child with no listeners yet.
NewProc(kind, job) ==
  [kind |-> kind, job |-> job, src |-> 0, closeSeen |-> FALSE, exited |-> FALSE, exitCode |-> NoCode,
   errored |-> FALSE, ended |-> FALSE, emitted |-> 0, dataL |-> FALSE,
   paused |-> FALSE, piped |-> FALSE, sigterm |-> 0, sigkill |-> 0, timers |-> 0]

\* process.kill("SIGTERM")
KillTerm(ps, p) == [ps EXCEPT ![p].sigterm = @ + 1]

\* stdout.removeAllListeners("data"); kill("SIGTERM")
Release(ps, p) ==
  IF p = Null THEN ps ELSE KillTerm([ps EXCEPT ![p].dataL = FALSE], p)

\* cleanup() of server.js, part_000, part_001 and the second program of
\* multifile.js: release the processes in the slots.  The callers null the slots.
cleanup(ps) == Release(Release(ps, ytDlpProcess), ffmpegProcess)

\* ------------------------------------------------------------- responses
NewRes ==
  [started |-> FALSE, videoId |-> "", status |-> 200, headersSent |-> FALSE, finished |-> FALSE,
   gone |-> FALSE, closed |-> FALSE, errored |-> FALSE, needDrain |-> FALSE, written |-> <<>>,
   pipes |-> <<>>, pipesDone |-> 0, late |-> FALSE, finals |-> 0]

\* A call on a response whose connection has closed is recorded in late.
Touch(r) == [r EXCEPT !.late = @ \/ r.closed]

ResWrite(r, c) ==
  IF r.finished \/ r.closed THEN Touch(r)
  ELSE [r EXCEPT !.headersSent = TRUE, !.written = Append(@, c)]

ResEnd(r) ==
  [Touch(r) EXCEPT !.headersSent = TRUE, !.finished = TRUE, !.finals = @ + 1]

\* res.status(code).send(body); the caller checks Throws first.
ResSend(r, code) ==
  [Touch(r) EXCEPT !.status = code, !.headersSent = TRUE, !.finished = TRUE,
                   !.finals = @ + 1]

SendThrows(r) == r.headersSent

\* startStreaming(audioUrl, res, attempt = 0) of part_001: attempt, the pending
\* setTimeout callbacks, the delays given to setTimeout so far, the listener sets
\* registered on res, and the calls of attemptStreaming.
\* startStreaming(videoUrls, res) of part_002 and multifile.js: the sources, the
\* loop position, the fetch being awaited, and whether a fetch has failed; for
\* multifile.js the calls of downloadAudio made by each source's retry loop, each
\* source's outcome, and the state of the Promise.all over them.
NewJob ==
  [attempt |-> 0, timers |-> 0, delays |-> <<>>, listeners |-> 0, invocations |-> 0,
   urls |-> <<>>, idx |-> 0, step |-> "idle", fetchPid |-> 0, fetchFailed |-> FALSE,
   tries |-> <<>>, srcState |-> <<>>, all |-> "idle"]

\* ---------------------------------------------------------------- Init
Boot ==
  /\ ytDlpProcess = Null
  /\ ffmpegProcess = Null
  /\ procs = <<>>
  /\ res = [j \in Jobs |-> NewRes]
  /\ crashed = FALSE
  /\ stops = 0
  /\ jobs = [j \in Jobs |-> NewJob]
  /\ ytDlpProcesses = <<>>
  /\ files = {}

Init == Boot /\ cache = {}

\* part_002 starts with whatever earlier runs left in cacheDir.
CacheInit == Boot /\ cache \in SUBSET Keys

\* ---------------------------------------------- the processes themselves
\* A child exits: with a code, or on a signal (exitCode stays null).
ProcExit(p, c) ==
  /\ ~crashed
  /\ ~procs[p].exited
  /\ (c = NoCode) => (procs[p].sigterm + procs[p].sigkill > 0)
  /\ procs' = [procs EXCEPT ![p].exited = TRUE, ![p].exitCode = c]
  /\ UNCHANGED <<ytDlpProcess, ffmpegProcess, res, crashed, stops, jobs,
                 cache, ytDlpProcesses, files>>

\* ------------------------------------------------------------ server.js
\* GET /audio with the processes spawned before the videoId check
Server_audio_SpawnFirst(j, videoId) ==
  /\ ~crashed
  /\ ~res[j].started
  /\ (j > 1 => res[j - 1].started)
  /\ ytDlpProcess' = Len(procs) + 1
  /\ ffmpegProcess' = Len(procs) + 2
  /\ procs' = procs \o <<NewProc("yt", j), [NewProc("ff", j) EXCEPT !.dataL = TRUE]>>
  /\ res' = IF videoId = ""
            THEN [res EXCEPT ![j] = ResSend([@ EXCEPT !.started = TRUE], 400)]
            ELSE [res EXCEPT ![j].started = TRUE, ![j].videoId = videoId]
  /\ UNCHANGED <<crashed, stops, jobs>>
  /\ UNCHANGED others

\* GET /audio
Server_audio(j, videoId) ==
  /\ ~crashed
  /\ ~res[j].started
  /\ (j > 1 => res[j - 1].started)
  /\ IF videoId = ""
     THEN /\ res' = [res EXCEPT ![j] = ResSend([@ EXCEPT !.started = TRUE], 400)]
          /\ UNCHANGED <<ytDlpProcess, ffmpegProcess, procs>>
     ELSE /\ ytDlpProcess' = Len(procs) + 1
          /\ ffmpegProcess' = Len(procs) + 2
          /\ procs' = procs \o <<NewProc("yt", j),
                                 [NewProc("ff", j) EXCEPT !.dataL = TRUE]>>
          /\ res' = [res EXCEPT ![j].started = TRUE, ![j].videoId = videoId]
  /\ UNCHANGED <<crashed, stops, jobs>>
  /\ UNCHANGED others

\* ffmpegProcess.stdout.on("data"): the stream emits a chunk; the listener, when
\* still attached, writes it.
Server_ffmpegData(p) ==
  /\ ~crashed
  /\ procs[p].kind = "ff"
  /\ ~procs[p].ended
  /\ procs[p].emitted < MaxChunks
  /\ procs' = [procs EXCEPT ![p].emitted = @ + 1]
  /\ res' = IF procs[p].dataL
            THEN [res EXCEPT ![procs[p].job] = ResWrite(@, <<p, procs[p].emitted + 1>>)]
            ELSE res
  /\ UNCHANGED <<ytDlpProcess, ffmpegProcess, crashed, stops, jobs>>
  /\ UNCHANGED others

\* ffmpegProcess.stdout.on("end")
Server_ffmpegEnd(p) ==
  /\ ~crashed
  /\ procs[p].kind = "ff"
  /\ procs[p].exited
  /\ ~procs[p].ended
  /\ res' = [res EXCEPT ![procs[p].job] = ResEnd(@)]
  /\ procs' = cleanup([procs EXCEPT ![p].ended = TRUE])
  /\ ytDlpProcess' = Null
  /\ ffmpegProcess' = Null
  /\ UNCHANGED <<crashed, stops, jobs>>
  /\ UNCHANGED others

\* ytDlpProcess.on("error") and ffmpegProcess.on("error")
Server_procError(p) ==
  /\ ~crashed
  /\ ~procs[p].exited
  /\ ~procs[p].errored
  /\ procs[p].sigterm = 0
  /\ IF SendThrows(res[procs[p].job])
     THEN /\ crashed' = TRUE
          /\ procs' = [procs EXCEPT ![p].errored = TRUE, ![p].exited = TRUE,
                                    ![p].exitCode = 1]
          /\ UNCHANGED <<ytDlpProcess, ffmpegProcess, res>>
     ELSE /\ res' = [res EXCEPT ![procs[p].job] = ResSend(@, 500)]
          /\ procs' = cleanup([procs EXCEPT ![p].errored = TRUE, ![p].exited = TRUE,
                                            ![p].exitCode = 1])
          /\ ytDlpProcess' = Null
          /\ ffmpegProcess' = Null
          /\ UNCHANGED crashed
  /\ UNCHANGED <<stops, jobs>>
  /\ UNCHANGED others

\* req.on("close")
Server_reqClose(j) ==
  /\ ~crashed
  /\ res[j].started
  /\ res[j].status # 400
  /\ ~res[j].closed
  /\ res' = [res EXCEPT ![j].closed = TRUE]
  /\ procs' = cleanup(procs)
  /\ ytDlpProcess' = Null
  /\ ffmpegProcess' = Null
  /\ UNCHANGED <<crashed, stops, jobs>>
  /\ UNCHANGED others

\* stopProcess(process, name) of GET /stop-stream
stopProcess(ps, p) ==
  IF p = Null THEN ps ELSE [KillTerm(ps, p) EXCEPT ![p].timers = @ + 1]

\* GET /stop-stream
stopStream ==
  /\ ~crashed
  /\ stops < MaxStops
  /\ stops' = stops + 1
  /\ procs' = stopProcess(stopProcess(procs, ytDlpProcess), ffmpegProcess)
  /\ UNCHANGED <<ytDlpProcess, ffmpegProcess, res, crashed, jobs>>
  /\ UNCHANGED others

\* the setTimeout callback of stopProcess, 5000 ms later
stopTimer(p) ==
  /\ ~crashed
  /\ procs[p].timers > 0
  /\ procs' = [procs EXCEPT ![p].timers = @ - 1,
                            ![p].sigkill = IF procs[p].exitCode = NoCode
                                           THEN @ + 1 ELSE @]
  /\ UNCHANGED <<ytDlpProcess, ffmpegProcess, res, crashed, stops, jobs>>
  /\ UNCHANGED others

ServerNext ==
  \/ \E j \in Jobs, v \in {"", "a"} : Server_audio(j, v)
  \/ \E p \in Pids : Server_ffmpegData(p)
  \/ \E p \in Pids : Server_ffmpegEnd(p)
  \/ \E p \in Pids : Server_procError(p)
  \/ \E j \in Jobs : Server_reqClose(j)
  \/ \E p \in Pids, c \in {0, NoCode} : ProcExit(p, c)
  \/ stopStream
  \/ \E p \in Pids : stopTimer(p)

SpecServer == Init /\ [][ServerNext]_vars

\* ------------------------------------------------------------- part_001
maxRetries == 5
retryDelay == 1000

RECURSIVE Pow2(_)
Pow2(n) == IF n = 0 THEN 1 ELSE 2 * Pow2(n - 1)

\* The reconnect branch of the EPIPE catch and of the res "close" listener:
\* if (attempt < maxRetries) { setTimeout(..., retryDelay * 2 ** attempt); attempt++ }
scheduleRetry_NoCap(jb) ==
  [jb EXCEPT !.timers = @ + 1,
             !.delays = Append(@, retryDelay * Pow2(jb.attempt)),
             !.attempt = @ + 1]

scheduleRetry(jb) ==
  IF jb.attempt < maxRetries
  THEN [jb EXCEPT !.timers = @ + 1,
                  !.delays = Append(@, retryDelay * Pow2(jb.attempt)),
                  !.attempt = @ + 1]
  ELSE jb

\* res.emit("close") runs every "close" listener registered so far, in order.
RECURSIVE closeListeners(_, _)
closeListeners(jb, k) ==
  IF k = 0 THEN jb ELSE closeListeners(scheduleRetry(jb), k - 1)

\* attemptStreaming(): spawn the pair into the slots, set the headers (which throws
\* once the headers are sent), then register the listeners.  jb is the job's
\* closure state as the caller leaves it.
attemptStreaming(j, jb) ==
  LET throws == res[j].headersSent IN
  /\ ytDlpProcess' = Len(procs) + 1
  /\ ffmpegProcess' = Len(procs) + 2
  /\ procs' = procs \o <<[NewProc("yt", j) EXCEPT !.piped = ~throws],
                         [NewProc("ff", j) EXCEPT !.dataL = ~throws]>>
  /\ crashed' = throws
  /\ jobs' = [jobs EXCEPT ![j] =
                [jb EXCEPT !.invocations = @ + 1,
                           !.listeners = IF throws THEN @ ELSE @ + 1]]

\* GET /audio: retry(startStreaming)(audioUrl, res); startStreaming returns without
\* throwing on a fresh response, so retry calls it once.
R_audio(j, videoId) ==
  /\ ~crashed
  /\ j = 1
  /\ ~res[j].started
  /\ IF videoId = ""
     THEN /\ res' = [res EXCEPT ![j] = ResSend([@ EXCEPT !.started = TRUE], 400)]
          /\ UNCHANGED <<ytDlpProcess, ffmpegProcess, procs, crashed, jobs>>
     ELSE /\ res' = [res EXCEPT ![j].started = TRUE, ![j].videoId = videoId]
          /\ attemptStreaming(j, jobs[j])
  /\ UNCHANGED stops
  /\ UNCHANGED others

\* the setTimeout callback scheduled by the reconnect branch
R_retryTimer(j) ==
  /\ ~crashed
  /\ jobs[j].timers > 0
  /\ jobs[j].invocations < MaxSpawns
  /\ attemptStreaming(j, [jobs[j] EXCEPT !.timers = @ - 1])
  /\ UNCHANGED <<res, stops>>
  /\ UNCHANGED others

\* The client goes away; the response's "close" is emitted later.
R_clientGone(j) ==
  /\ ~crashed
  /\ jobs[j].listeners > 0
  /\ ~res[j].gone
  /\ ~res[j].closed
  /\ res' = [res EXCEPT ![j].gone = TRUE]
  /\ UNCHANGED <<ytDlpProcess, ffmpegProcess, procs, crashed, stops, jobs>>
  /\ UNCHANGED others

\* ffmpegProcess.stdout.on("data"): ready is what res.write returns on a live
\* response, epipe whether it throws EPIPE (the client's socket is gone).
R_ffmpegData(p, ready, epipe) ==
  LET j == procs[p].job
      r == res[j]
      dead == r.finished \/ r.closed
      ps1 == [procs EXCEPT ![p].emitted = @ + 1]
      r1 == IF dead THEN Touch(r)
            ELSE [ResWrite(r, <<p, procs[p].emitted + 1>>) EXCEPT
                    !.needDrain = @ \/ ~ready]
  IN
  /\ ~crashed
  /\ procs[p].kind = "ff"
  /\ ~procs[p].ended
  /\ ~procs[p].paused
  /\ procs[p].emitted < MaxChunks
  /\ procs[p].dataL
  /\ epipe => (r.gone /\ ~r.closed)
  /\ (dead \/ epipe) => ready
  /\ IF epipe
     THEN /\ procs' = cleanup(ps1)
          /\ ytDlpProcess' = Null
          /\ ffmpegProcess' = Null
          /\ jobs' = [jobs EXCEPT ![j] = scheduleRetry(@)]
          /\ res' = IF jobs[j].attempt >= maxRetries /\ ~r.headersSent
                    THEN [res EXCEPT ![j] = ResSend(@, 500)]
                    ELSE res
     ELSE IF (dead \/ ~ready) /\ ~r1.headersSent
     THEN \* ffmpegProcess.stdout.pause(): on a null slot the TypeError is caught
          \* by the handler's catch, which runs cleanup()
          /\ res' = [res EXCEPT ![j] = r1]
          /\ procs' = IF ffmpegProcess = Null THEN cleanup(ps1)
                      ELSE [ps1 EXCEPT ![ffmpegProcess].paused = TRUE]
          /\ ytDlpProcess' = IF ffmpegProcess = Null THEN Null ELSE ytDlpProcess
          /\ UNCHANGED <<ffmpegProcess, jobs>>
     ELSE /\ res' = [res EXCEPT ![j] = r1]
          /\ procs' = ps1
          /\ UNCHANGED <<ytDlpProcess, ffmpegProcess, jobs>>
  /\ UNCHANGED <<crashed, stops>>
  /\ UNCHANGED others

\* res.on("drain"): ffmpegProcess.stdout.resume() on the slot; a null slot throws.
R_resDrain(j) ==
  /\ ~crashed
  /\ jobs[j].listeners > 0
  /\ res[j].needDrain
  /\ ~res[j].gone
  /\ ~res[j].closed
  /\ res' = [res EXCEPT ![j].needDrain = FALSE]
  /\ IF ffmpegProcess = Null
     THEN crashed' = TRUE /\ UNCHANGED procs
     ELSE procs' = [procs EXCEPT ![ffmpegProcess].paused = FALSE] /\ UNCHANGED crashed
  /\ UNCHANGED <<ytDlpProcess, ffmpegProcess, stops, jobs>>
  /\ UNCHANGED others

\* res.on("close"), once per response: after the client has gone or the response
\* has been sent.
R_resClose(j) ==
  /\ ~crashed
  /\ jobs[j].listeners > 0
  /\ res[j].gone \/ res[j].finished
  /\ ~res[j].closed
  /\ res' = [res EXCEPT ![j].closed = TRUE]
  /\ procs' = cleanup(procs)
  /\ ytDlpProcess' = Null
  /\ ffmpegProcess' = Null
  /\ jobs' = [jobs EXCEPT ![j] = closeListeners(@, @.listeners)]
  /\ UNCHANGED <<crashed, stops>>
  /\ UNCHANGED others

\* res.on("error")
R_resError(j) ==
  /\ ~crashed
  /\ jobs[j].listeners > 0
  /\ res[j].gone
  /\ ~res[j].closed
  /\ ~res[j].errored
  /\ res' = [res EXCEPT ![j].errored = TRUE]
  /\ procs' = cleanup(procs)
  /\ ytDlpProcess' = Null
  /\ ffmpegProcess' = Null
  /\ UNCHANGED <<crashed, stops, jobs>>
  /\ UNCHANGED others

\* ytDlpProcess.on("error") and ffmpegProcess.on("error")
R_procError(p) ==
  LET j == procs[p].job IN
  /\ ~crashed
  /\ ~procs[p].exited
  /\ ~procs[p].errored
  /\ procs[p].sigterm = 0
  /\ res' = IF res[j].headersSent THEN res ELSE [res EXCEPT ![j] = ResSend(@, 500)]
  /\ procs' = cleanup([procs EXCEPT ![p].errored = TRUE, ![p].exited = TRUE,
                                    ![p].exitCode = 1])
  /\ ytDlpProcess' = Null
  /\ ffmpegProcess' = Null
  /\ UNCHANGED <<crashed, stops, jobs>>
  /\ UNCHANGED others

\* ffmpegProcess.stdout.on("end")
R_ffmpegEnd(p) ==
  LET j == procs[p].job IN
  /\ ~crashed
  /\ procs[p].kind = "ff"
  /\ procs[p].exited
  /\ ~procs[p].ended
  /\ ~procs[p].paused
  /\ res' = IF res[j].headersSent THEN res ELSE [res EXCEPT ![j] = ResEnd(@)]
  /\ procs' = cleanup([procs EXCEPT ![p].ended = TRUE])
  /\ ytDlpProcess' = Null
  /\ ffmpegProcess' = Null
  /\ UNCHANGED <<crashed, stops, jobs>>
  /\ UNCHANGED others

\* the callback of pipeline(ytDlpProcess.stdout, ffmpegProcess.stdin, cb) with an
\* error: the transcoder's stdin closed while the fetcher was still writing.
R_pipelineError(p) ==
  LET j == procs[p].job IN
  /\ ~crashed
  /\ procs[p].kind = "yt"
  /\ procs[p].piped
  /\ ~procs[p].exited
  /\ procs[p + 1].exited
  /\ procs' = cleanup([procs EXCEPT ![p].piped = FALSE])
  /\ ytDlpProcess' = Null
  /\ ffmpegProcess' = Null
  /\ res' = IF res[j].headersSent THEN res ELSE [res EXCEPT ![j] = ResSend(@, 500)]
  /\ UNCHANGED <<crashed, stops, jobs>>
  /\ UNCHANGED others

ReconnectNext ==
  \/ \E j \in Jobs, v \in {"", "a"} : R_audio(j, v)
  \/ \E j \in Jobs : R_retryTimer(j)
  \/ \E j \in Jobs : R_clientGone(j)
  \/ \E p \in Pids, ready \in BOOLEAN, epipe \in BOOLEAN : R_ffmpegData(p, ready, epipe)
  \/ \E j \in Jobs : R_resDrain(j)
  \/ \E j \in Jobs : R_resClose(j)
  \/ \E j \in Jobs : R_resError(j)
  \/ \E p \in Pids : R_procError(p)
  \/ \E p \in Pids : R_ffmpegEnd(p)
  \/ \E p \in Pids : R_pipelineError(p)
  \/ \E p \in Pids : ProcExit(p, 0)


SpecReconnect == Init /\ [][ReconnectNext]_vars

\* ------------------------------------------------------------- part_002
\* One job is modelled: the loop of startStreaming awaits each limit(...) task
\* before the next, and pLimit(1) never has a second task to hold back.

\* cleanup(processes): release each process given; the slots stay as they are.
RECURSIVE cleanupList(_, _)
cleanupList(ps, processes) ==
  IF processes = <<>> THEN ps
  ELSE cleanupList(Release(ps, Head(processes)), Tail(processes))

\* res.emit("close") with k listeners, each cleanup([ytDlpProcess, ffmpegProcess])
RECURSIVE cleanupTimes(_, _)
cleanupTimes(ps, k) ==
  IF k = 0 THEN ps
  ELSE cleanupTimes(cleanupList(ps, <<ytDlpProcess, ffmpegProcess>>), k - 1)

\* The loop with the cache check left out: every source is fetched.
runLoop_NoCacheCheck(jb, r) ==
  IF jb.idx > Len(jb.urls)
  THEN [jb |-> [jb EXCEPT !.step = "done"], r |-> r, throws |-> FALSE]
  ELSE [jb |-> [jb EXCEPT !.step = "fetch"], r |-> r, throws |-> FALSE]

\* The for-loop of startStreaming from source jb.idx on, up to the first source
\* that is not in the cache: a cached source is piped into the response and the
\* loop goes on.  res.setHeader throws once the headers are sent; the catch then
\* calls res.status(500).send, which throws too, and the rejection is unhandled.
RECURSIVE runLoop(_, _)
runLoop(jb, r) ==
  IF jb.idx > Len(jb.urls)
  THEN [jb |-> [jb EXCEPT !.step = "done"], r |-> r, throws |-> FALSE]
  ELSE IF jb.urls[jb.idx] \in cache
  THEN IF r.headersSent
       THEN [jb |-> jb, r |-> r, throws |-> TRUE]
       ELSE runLoop([jb EXCEPT !.idx = @ + 1],
                    [r EXCEPT !.pipes = Append(@, jb.urls[jb.idx])])
  ELSE [jb |-> [jb EXCEPT !.step = "fetch"], r |-> r, throws |-> FALSE]

\* startStreaming runs on from the state (ps, jb, r): the loop, then, for a
\* source that is not cached, processVideo: spawn yt-dlp into the slot and
\* fs.createWriteStream(cacheFilePath), which creates the file.
startStreaming(j, ps, jb, r) ==
  LET out == runLoop(jb, r)
      fetch == out.jb.step = "fetch"
      pid == Len(ps) + 1
  IN
  /\ crashed' = out.throws
  /\ procs' = IF fetch
              THEN Append(ps, [NewProc("yt", j) EXCEPT !.src = out.jb.idx])
              ELSE ps
  /\ ytDlpProcess' = IF fetch THEN pid ELSE ytDlpProcess
  /\ cache' = IF fetch THEN cache \cup {out.jb.urls[out.jb.idx]} ELSE cache
  /\ jobs' = [jobs EXCEPT ![j] = IF fetch THEN [out.jb EXCEPT !.fetchPid = pid]
                                 ELSE out.jb]
  /\ res' = [res EXCEPT ![j] = out.r]

\* GET /audio
C_audio(j, ids) ==
  /\ ~crashed
  /\ j = 1
  /\ ~res[j].started
  /\ IF ids = <<>>
     THEN /\ res' = [res EXCEPT ![j] = ResSend([@ EXCEPT !.started = TRUE], 400)]
          /\ UNCHANGED <<ytDlpProcess, procs, crashed, jobs, cache>>
     ELSE startStreaming(j, procs, [jobs[j] EXCEPT !.urls = ids, !.idx = 1],
                         [res[j] EXCEPT !.started = TRUE, !.videoId = ids[1]])
  /\ UNCHANGED <<ffmpegProcess, stops, ytDlpProcesses, files>>

\* processVideo rejected: the catch of the task sends 500 and the task returns, so
\* the loop goes on with the next source.
C_reject(j, ps) ==
  IF res[j].headersSent
  THEN /\ crashed' = TRUE
       /\ procs' = ps
       /\ UNCHANGED <<ytDlpProcess, ffmpegProcess, res, jobs, cache>>
  ELSE /\ startStreaming(j, ps,
                         [jobs[j] EXCEPT !.fetchFailed = TRUE, !.idx = @ + 1,
                                         !.step = "idle", !.fetchPid = 0],
                         ResSend(res[j], 500))
       /\ UNCHANGED ffmpegProcess

\* processVideo resolved: spawn ffmpeg into the slot, register its listeners and
\* one more res "close" listener; the task returns and the loop goes on.
C_resolve(j, ps) ==
  /\ ffmpegProcess' = Len(ps) + 1
  /\ startStreaming(j, Append(ps, [NewProc("ff", j) EXCEPT !.src = jobs[j].idx]),
                    [jobs[j] EXCEPT !.idx = @ + 1, !.step = "idle", !.fetchPid = 0,
                                    !.listeners = @ + 1],
                    res[j])

Awaited(p) == jobs[procs[p].job].step = "fetch" /\ jobs[procs[p].job].fetchPid = p

\* ytDlpProcess.on("error")
C_ytError(p) ==
  LET ps1 == [procs EXCEPT ![p].errored = TRUE, ![p].exited = TRUE, ![p].exitCode = 1] IN
  /\ ~crashed
  /\ procs[p].kind = "yt"
  /\ ~procs[p].exited
  /\ ~procs[p].errored
  /\ procs[p].sigterm = 0
  /\ IF Awaited(p) THEN C_reject(procs[p].job, ps1)
     ELSE /\ procs' = ps1
          /\ UNCHANGED <<ytDlpProcess, ffmpegProcess, res, crashed, jobs, cache>>
  /\ UNCHANGED <<stops, ytDlpProcesses, files>>

\* ytDlpProcess.on("close", code)
C_ytClose(p) ==
  LET ps1 == [procs EXCEPT ![p].closeSeen = TRUE] IN
  /\ ~crashed
  /\ procs[p].kind = "yt"
  /\ procs[p].exited
  /\ ~procs[p].closeSeen
  /\ IF ~Awaited(p)
     THEN /\ procs' = ps1
          /\ UNCHANGED <<ytDlpProcess, ffmpegProcess, res, crashed, jobs, cache>>
     ELSE IF procs[p].exitCode = 0 THEN C_resolve(procs[p].job, ps1)
     ELSE C_reject(procs[p].job, ps1)
  /\ UNCHANGED <<stops, ytDlpProcesses, files>>

\* ffmpegProcess.on("close", code)
C_ffClose(p) ==
  LET j == procs[p].job
      ps1 == [procs EXCEPT ![p].closeSeen = TRUE]
  IN
  /\ ~crashed
  /\ procs[p].kind = "ff"
  /\ procs[p].exited
  /\ ~procs[p].closeSeen
  /\ IF res[j].headersSent
     THEN crashed' = TRUE /\ procs' = ps1 /\ UNCHANGED res
     ELSE /\ res' = IF procs[p].exitCode = 0
                    THEN [res EXCEPT ![j].pipes = Append(@, jobs[j].urls[procs[p].src])]
                    ELSE [res EXCEPT ![j] = ResSend(@, 500)]
          /\ procs' = cleanupList(ps1, <<ytDlpProcess, ffmpegProcess>>)
          /\ UNCHANGED crashed
  /\ UNCHANGED <<ytDlpProcess, ffmpegProcess, stops, jobs, cache, ytDlpProcesses, files>>

\* ffmpegProcess.on("error")
C_ffError(p) ==
  LET j == procs[p].job
      ps1 == [procs EXCEPT ![p].errored = TRUE, ![p].exited = TRUE, ![p].exitCode = 1]
  IN
  /\ ~crashed
  /\ procs[p].kind = "ff"
  /\ ~procs[p].exited
  /\ ~procs[p].errored
  /\ procs[p].sigterm = 0
  /\ IF res[j].headersSent
     THEN crashed' = TRUE /\ procs' = ps1 /\ UNCHANGED res
     ELSE /\ res' = [res EXCEPT ![j] = ResSend(@, 500)]
          /\ procs' = cleanupList(ps1, <<ytDlpProcess, ffmpegProcess>>)
          /\ UNCHANGED crashed
  /\ UNCHANGED <<ytDlpProcess, ffmpegProcess, stops, jobs, cache, ytDlpProcesses, files>>

\* A read stream piped into the response has delivered its file and ends it.
C_pipeEnd(j) ==
  /\ ~crashed
  /\ res[j].pipesDone < Len(res[j].pipes)
  /\ res' = [res EXCEPT ![j] =
               [ResEnd(ResWrite(@, <<0, @.pipesDone + 1>>)) EXCEPT !.pipesDone = @ + 1]]
  /\ UNCHANGED <<ytDlpProcess, ffmpegProcess, procs, crashed, stops, jobs, cache,
                 ytDlpProcesses, files>>

\* The client goes away; the response's "close" is emitted later.
C_clientGone(j) ==
  /\ ~crashed
  /\ res[j].started
  /\ res[j].status # 400
  /\ ~res[j].gone
  /\ ~res[j].closed
  /\ res' = [res EXCEPT ![j].gone = TRUE]
  /\ UNCHANGED <<ytDlpProcess, ffmpegProcess, procs, crashed, stops, jobs, cache,
                 ytDlpProcesses, files>>

\* res.on("close"): every listener registered so far runs cleanup.
C_resClose(j) ==
  /\ ~crashed
  /\ res[j].gone \/ res[j].finished
  /\ res[j].status # 400
  /\ ~res[j].closed
  /\ res' = [res EXCEPT ![j].closed = TRUE]
  /\ procs' = cleanupTimes(procs, jobs[j].listeners)
  /\ UNCHANGED <<ytDlpProcess, ffmpegProcess, crashed, stops, jobs, cache,
                 ytDlpProcesses, files>>

\* GET /stop-stream
C_stopStream ==
  /\ ~crashed
  /\ stops < MaxStops
  /\ stops' = stops + 1
  /\ procs' = IF ytDlpProcess # Null \/ ffmpegProcess # Null
              THEN cleanupList(procs, <<ytDlpProcess, ffmpegProcess>>)
              ELSE procs
  /\ UNCHANGED <<ytDlpProcess, ffmpegProcess, res, crashed, jobs, cache,
                 ytDlpProcesses, files>>

CacheNext ==
  \/ \E j \in Jobs, ids \in Requests : C_audio(j, ids)
  \/ \E p \in Pids : C_ytError(p)
  \/ \E p \in Pids : C_ytClose(p)
  \/ \E p \in Pids : C_ffClose(p)
  \/ \E p \in Pids : C_ffError(p)
  \/ \E j \in Jobs : C_pipeEnd(j)
  \/ \E j \in Jobs : C_clientGone(j)
  \/ \E j \in Jobs : C_resClose(j)
  \/ C_stopStream
  \/ \E p \in Pids, c \in {0, 1, NoCode} : ProcExit(p, c)

SpecCache == CacheInit /\ [][CacheNext]_vars

\* --------------------------------------------- multifile.js, first program
\* File 0 is concat_list.txt, file i is audio<i-1>.m4a, whichever job names them.
retries == 3
ConcatList == 0

\* cleanup(): release every fetcher in the list and the transcoder in the slot;
\* the callers empty the list and null the slot.
cleanupAll(ps) == cleanupList(ps, ytDlpProcesses \o <<ffmpegProcess>>)

\* audioFiles.forEach((file) => fs.unlinkSync(file)), then the list file if it
\* exists: unlinkSync throws on the first file that is missing.
RECURSIVE unlinkFrom(_, _, _)
unlinkFrom(fs, i, n) ==
  IF i > n
  THEN [files |-> IF n > 1 THEN fs \ {ConcatList} ELSE fs, throws |-> FALSE]
  ELSE IF i \in fs THEN unlinkFrom(fs \ {i}, i + 1, n)
  ELSE [files |-> fs, throws |-> TRUE]

\* the body shared by the four terminal listeners: cleanup(), then the unlinks
Terminal(j, ps) ==
  LET out == unlinkFrom(files, 1, Len(jobs[j].urls)) IN
  /\ procs' = cleanupAll(ps)
  /\ ytDlpProcesses' = <<>>
  /\ ffmpegProcess' = Null
  /\ files' = out.files
  /\ crashed' = out.throws

\* The audio files are named by position, so one request per number of sources.
MultiRequests == {SubSeq(<<"a", "b">>, 1, n) : n \in 0..MaxSources}

\* GET /audio: startStreaming maps retry(downloadAudio) over the sources, and each
\* first call of downloadAudio spawns its fetcher at once.
M_audio(j, ids) ==
  LET n == Len(ids)
      base == Len(procs)
  IN
  /\ ~crashed
  /\ (j > 1 => res[j - 1].started)
  /\ ~res[j].started
  /\ IF ids = <<>>
     THEN /\ res' = [res EXCEPT ![j] = ResSend([@ EXCEPT !.started = TRUE], 400)]
          /\ UNCHANGED <<procs, jobs, ytDlpProcesses>>
     ELSE /\ res' = [res EXCEPT ![j].started = TRUE, ![j].videoId = ids[1]]
          /\ procs' = procs \o [i \in 1..n |-> [NewProc("yt", j) EXCEPT !.src = i]]
          /\ ytDlpProcesses' = ytDlpProcesses \o [i \in 1..n |-> base + i]
          /\ jobs' = [jobs EXCEPT ![j].urls = ids,
                                  ![j].tries = [i \in 1..n |-> 1],
                                  ![j].srcState = [i \in 1..n |-> "pending"],
                                  ![j].all = "pending"]
  /\ UNCHANGED <<ytDlpProcess, ffmpegProcess, crashed, stops, cache, files>>

\* downloadAudio rejected for source procs[p].src: retry calls it again, or after
\* the third failure throws; Promise.all then rejects (once) and the catch of
\* startStreaming sends 500 and runs cleanup().
M_reject_FourCalls(p, ps) ==
  LET j == procs[p].job
      i == procs[p].src
      jb == jobs[j]
  IN
  IF jb.tries[i] < retries + 1
  THEN /\ procs' = Append(ps, [NewProc("yt", j) EXCEPT !.src = i])
       /\ ytDlpProcesses' = Append(ytDlpProcesses, Len(ps) + 1)
       /\ jobs' = [jobs EXCEPT ![j].tries[i] = @ + 1]
       /\ UNCHANGED <<ffmpegProcess, res, crashed>>
  ELSE IF jb.all # "pending"
  THEN /\ procs' = ps
       /\ jobs' = [jobs EXCEPT ![j].srcState[i] = "failed"]
       /\ UNCHANGED <<ffmpegProcess, res, crashed, ytDlpProcesses>>
  ELSE IF res[j].headersSent
  THEN /\ crashed' = TRUE
       /\ procs' = ps
       /\ jobs' = [jobs EXCEPT ![j].srcState[i] = "failed", ![j].all = "rejected"]
       /\ UNCHANGED <<ffmpegProcess, res, ytDlpProcesses>>
  ELSE /\ res' = [res EXCEPT ![j] = ResSend(@, 500)]
       /\ procs' = cleanupAll(ps)
       /\ ytDlpProcesses' = <<>>
       /\ ffmpegProcess' = Null
       /\ jobs' = [jobs EXCEPT ![j].srcState[i] = "failed", ![j].all = "rejected",
                               ![j].fetchFailed = TRUE]
       /\ UNCHANGED crashed

M_reject(p, ps) ==
  LET j == procs[p].job
      i == procs[p].src
      jb == jobs[j]
  IN
  IF jb.tries[i] < retries
  THEN /\ procs' = Append(ps, [NewProc("yt", j) EXCEPT !.src = i])
       /\ ytDlpProcesses' = Append(ytDlpProcesses, Len(ps) + 1)
       /\ jobs' = [jobs EXCEPT ![j].tries[i] = @ + 1]
       /\ UNCHANGED <<ffmpegProcess, res, crashed>>
  ELSE IF jb.all # "pending"
  THEN /\ procs' = ps
       /\ jobs' = [jobs EXCEPT ![j].srcState[i] = "failed"]
       /\ UNCHANGED <<ffmpegProcess, res, crashed, ytDlpProcesses>>
  ELSE IF res[j].headersSent
  THEN /\ crashed' = TRUE
       /\ procs' = ps
       /\ jobs' = [jobs EXCEPT ![j].srcState[i] = "failed", ![j].all = "rejected"]
       /\ UNCHANGED <<ffmpegProcess, res, ytDlpProcesses>>
  ELSE /\ res' = [res EXCEPT ![j] = ResSend(@, 500)]
       /\ procs' = cleanupAll(ps)
       /\ ytDlpProcesses' = <<>>
       /\ ffmpegProcess' = Null
       /\ jobs' = [jobs EXCEPT ![j].srcState[i] = "failed", ![j].all = "rejected",
                               ![j].fetchFailed = TRUE]
       /\ UNCHANGED crashed

\* downloadAudio resolved for source procs[p].src; when it is the last one,
\* Promise.all resolves and startStreaming writes the list file (two or more
\* sources), spawns ffmpeg into the slot, pipes its stdout into the response and
\* registers the terminal listeners.
M_resolve(p, ps) ==
  LET j == procs[p].job
      i == procs[p].src
      st == [jobs[j].srcState EXCEPT ![i] = "ok"]
      last == jobs[j].all = "pending" /\ \A k \in DOMAIN st : st[k] = "ok"
  IN
  /\ jobs' = [jobs EXCEPT ![j].srcState = st,
                          ![j].all = IF last THEN "resolved" ELSE @,
                          ![j].listeners = IF last THEN @ + 1 ELSE @]
  /\ procs' = IF last
              THEN Append(ps, [NewProc("ff", j) EXCEPT !.dataL = TRUE])
              ELSE ps
  /\ ffmpegProcess' = IF last THEN Len(ps) + 1 ELSE ffmpegProcess
  /\ files' = IF last /\ Len(st) > 1 THEN files \cup {ConcatList} ELSE files
  /\ UNCHANGED <<res, crashed, ytDlpProcesses>>

\* ytDlpProcess.on("error") of downloadAudio
M_ytError(p) ==
  LET ps1 == [procs EXCEPT ![p].errored = TRUE, ![p].exited = TRUE, ![p].exitCode = 1] IN
  /\ ~crashed
  /\ procs[p].kind = "yt"
  /\ ~procs[p].exited
  /\ ~procs[p].errored
  /\ procs[p].sigterm = 0
  /\ M_reject(p, ps1)
  /\ UNCHANGED <<ytDlpProcess, stops, cache, files>>

\* ytDlpProcess.on("close", code) of downloadAudio
M_ytClose(p) ==
  LET ps1 == [procs EXCEPT ![p].closeSeen = TRUE] IN
  /\ ~crashed
  /\ procs[p].kind = "yt"
  /\ procs[p].exited
  /\ ~procs[p].closeSeen
  /\ IF procs[p].errored
     THEN /\ procs' = ps1
          /\ UNCHANGED <<ffmpegProcess, res, crashed, jobs, ytDlpProcesses, files>>
     ELSE IF procs[p].exitCode = 0 THEN M_resolve(p, ps1)
     ELSE M_reject(p, ps1) /\ UNCHANGED files
  /\ UNCHANGED <<ytDlpProcess, stops, cache>>

\* A child exits; a fetcher that exits with code 0 has written its audio file.
M_procExit(p, c) ==
  /\ ~crashed
  /\ ~procs[p].exited
  /\ (c = NoCode) => (procs[p].sigterm + procs[p].sigkill > 0)
  /\ procs' = [procs EXCEPT ![p].exited = TRUE, ![p].exitCode = c]
  /\ files' = IF procs[p].kind = "yt" /\ c = 0 THEN files \cup {procs[p].src} ELSE files
  /\ UNCHANGED <<ytDlpProcess, ffmpegProcess, res, crashed, stops, jobs, cache,
                 ytDlpProcesses>>

\* ffmpegProcess.stdout.pipe(res): a chunk is written while the pipe's "data"
\* listener is attached.
M_ffData(p) ==
  /\ ~crashed
  /\ procs[p].kind = "ff"
  /\ ~procs[p].ended
  /\ procs[p].emitted < MaxChunks
  /\ procs' = [procs EXCEPT ![p].emitted = @ + 1]
  /\ res' = IF procs[p].dataL
            THEN [res EXCEPT ![procs[p].job] = ResWrite(@, <<p, procs[p].emitted + 1>>)]
            ELSE res
  /\ UNCHANGED <<ytDlpProcess, ffmpegProcess, crashed, stops, jobs, cache,
                 ytDlpProcesses, files>>

\* ffmpegProcess.stdout.pipe(res): the stdout's "end" ends the response.
M_ffEnd(p) ==
  /\ ~crashed
  /\ procs[p].kind = "ff"
  /\ procs[p].exited
  /\ ~procs[p].ended
  /\ procs' = [procs EXCEPT ![p].ended = TRUE]
  /\ res' = [res EXCEPT ![procs[p].job] = ResEnd(@)]
  /\ UNCHANGED <<ytDlpProcess, ffmpegProcess, crashed, stops, jobs, cache,
                 ytDlpProcesses, files>>

\* ffmpegProcess.on("close")
M_ffClose(p) ==
  /\ ~crashed
  /\ procs[p].kind = "ff"
  /\ procs[p].exited
  /\ ~procs[p].closeSeen
  /\ Terminal(procs[p].job, [procs EXCEPT ![p].closeSeen = TRUE])
  /\ UNCHANGED <<ytDlpProcess, res, stops, jobs, cache>>

\* ffmpegProcess.on("error")
M_ffError(p) ==
  LET j == procs[p].job
      ps1 == [procs EXCEPT ![p].errored = TRUE, ![p].exited = TRUE, ![p].exitCode = 1]
  IN
  /\ ~crashed
  /\ procs[p].kind = "ff"
  /\ ~procs[p].exited
  /\ ~procs[p].errored
  /\ procs[p].sigterm = 0
  /\ IF res[j].headersSent
     THEN /\ crashed' = TRUE
          /\ procs' = ps1
          /\ UNCHANGED <<ffmpegProcess, res, ytDlpProcesses, files>>
     ELSE /\ res' = [res EXCEPT ![j] = ResSend(@, 500)]
          /\ Terminal(j, ps1)
  /\ UNCHANGED <<ytDlpProcess, stops, jobs, cache>>

\* The client goes away; the response's "close" is emitted later.
M_clientGone(j) ==
  /\ ~crashed
  /\ res[j].started
  /\ res[j].status # 400
  /\ ~res[j].gone
  /\ ~res[j].closed
  /\ res' = [res EXCEPT ![j].gone = TRUE]
  /\ UNCHANGED <<ytDlpProcess, ffmpegProcess, procs, crashed, stops, jobs, cache,
                 ytDlpProcesses, files>>

\* res.on("close"), registered once the transcoder has been spawned
M_resClose(j) ==
  /\ ~crashed
  /\ res[j].gone \/ res[j].finished
  /\ res[j].status # 400
  /\ ~res[j].closed
  /\ res' = [res EXCEPT ![j].closed = TRUE]
  /\ IF jobs[j].listeners > 0
     THEN Terminal(j, procs)
     ELSE UNCHANGED <<ffmpegProcess, procs, crashed, ytDlpProcesses, files>>
  /\ UNCHANGED <<ytDlpProcess, stops, jobs, cache>>

\* res.on("error")
M_resError(j) ==
  /\ ~crashed
  /\ jobs[j].listeners > 0
  /\ res[j].gone
  /\ ~res[j].closed
  /\ ~res[j].errored
  /\ res' = [res EXCEPT ![j].errored = TRUE]
  /\ Terminal(j, procs)
  /\ UNCHANGED <<ytDlpProcess, stops, jobs, cache>>

\* stopProcesses(processes, name) of GET /stop-stream
RECURSIVE stopProcesses(_, _)
stopProcesses(ps, processes) ==
  IF processes = <<>> THEN ps
  ELSE stopProcesses(stopProcess(ps, Head(processes)), Tail(processes))

\* GET /stop-stream
M_stopStream ==
  /\ ~crashed
  /\ stops < MaxStops
  /\ stops' = stops + 1
  /\ procs' = stopProcesses(stopProcesses(procs, ytDlpProcesses), <<ffmpegProcess>>)
  /\ UNCHANGED <<ytDlpProcess, ffmpegProcess, res, crashed, jobs, cache,
                 ytDlpProcesses, files>>

\* The listener of fetcher p, fired now, would make retry call downloadAudio again.
Respawns(p) ==
  /\ jobs[procs[p].job].tries[procs[p].src] < retries
  /\ ~(procs[p].exited /\ (procs[p].errored \/ procs[p].exitCode = 0))

\* Fewer than MaxFetchers fetchers so far, or the listener of p spawns none.
Affordable(p) ==
  /\ procs[p].kind = "yt"
  /\ Respawns(p) => Cardinality({q \in Pids : procs[q].kind = "yt"}) < MaxFetchers

\* One job, with /stop-stream, and at most MaxFetchers fetchers.
MultiNext ==
  \/ \E ids \in MultiRequests : M_audio(1, ids)
  \/ \E p \in Pids : Affordable(p) /\ M_ytError(p)
  \/ \E p \in Pids : Affordable(p) /\ M_ytClose(p)
  \/ \E p \in Pids, c \in {0, 1, NoCode} : M_procExit(p, c)
  \/ \E p \in Pids : M_ffData(p)
  \/ \E p \in Pids : M_ffEnd(p)
  \/ \E p \in Pids : M_ffClose(p)
  \/ \E p \in Pids : M_ffError(p)
  \/ \E j \in Jobs : M_clientGone(j)
  \/ \E j \in Jobs : M_resClose(j)
  \/ \E j \in Jobs : M_resError(j)
  \/ M_stopStream
  \/ \E p \in Pids : stopTimer(p)

SpecMulti == Init /\ [][MultiNext]_vars

\* One job with every call retry makes, without /stop-stream.
MultiRetryNext ==
  \/ \E ids \in MultiRequests : M_audio(1, ids)
  \/ \E p \in Pids : M_ytError(p)
  \/ \E p \in Pids : M_ytClose(p)
  \/ \E p \in Pids, c \in {0, 1, NoCode} : M_procExit(p, c)
  \/ \E p \in Pids : M_ffData(p)
  \/ \E p \in Pids : M_ffEnd(p)
  \/ \E p \in Pids : M_ffClose(p)
  \/ \E p \in Pids : M_ffError(p)
  \/ \E j \in Jobs : M_clientGone(j)
  \/ \E j \in Jobs : M_resClose(j)
  \/ \E j \in Jobs : M_resError(j)

SpecMultiRetry == Init /\ [][MultiRetryNext]_vars

\* Concurrent jobs whose processes all succeed, without /stop-stream.
MultiPairNext ==
  \/ \E j \in Jobs, ids \in MultiRequests : M_audio(j, ids)
  \/ \E p \in Pids : M_ytClose(p)
  \/ \E p \in Pids : M_procExit(p, 0)
  \/ \E p \in Pids : M_ffData(p)
  \/ \E p \in Pids : M_ffEnd(p)
  \/ \E p \in Pids : M_ffClose(p)
  \/ \E j \in Jobs : M_clientGone(j)
  \/ \E j \in Jobs : M_resClose(j)
  \/ \E j \in Jobs : M_resError(j)

SpecMultiPair == Init /\ [][MultiPairNext]_vars

\* ------------------------------------------------------------- part_000
\* startStreaming(audioUrl, res), called for the i-th time by the loop of
\* retry(startStreaming): spawn the pair into the slots, then res.setHeader, which
\* throws once the headers are sent; otherwise register the listeners and return.
\* A throw is caught by retry, which calls startStreaming again, or rethrows after
\* the last try into the .catch of the route, whose res.status(500).send throws too.
\* The awaits of the loop are microtasks, so the loop is part of the request's step.
RECURSIVE D_retry_Always(_, _, _, _)
D_retry_Always(i, j, ps, r) ==
  LET ps1 == ps \o <<NewProc("yt", j), [NewProc("ff", j) EXCEPT !.dataL = TRUE]>> IN
  IF i < retries - 1 THEN D_retry_Always(i + 1, j, ps1, r)
  ELSE [procs |-> ps1, throws |-> r.headersSent]

RECURSIVE D_retry(_, _, _, _)
D_retry(i, j, ps, r) ==
  LET ps1 == ps \o <<NewProc("yt", j), [NewProc("ff", j) EXCEPT !.dataL = ~r.headersSent]>> IN
  IF ~r.headersSent THEN [procs |-> ps1, throws |-> FALSE]
  ELSE IF i < retries - 1 THEN D_retry(i + 1, j, ps1, r)
  ELSE [procs |-> ps1, throws |-> TRUE]

\* GET /audio
D_audio(j, videoId) ==
  /\ ~crashed
  /\ ~res[j].started
  /\ (j > 1 => res[j - 1].started)
  /\ IF videoId = ""
     THEN /\ res' = [res EXCEPT ![j] = ResSend([@ EXCEPT !.started = TRUE], 400)]
          /\ UNCHANGED <<ytDlpProcess, ffmpegProcess, procs, crashed>>
     ELSE LET out == D_retry(0, j, procs, res[j]) IN
          /\ procs' = out.procs
          /\ ytDlpProcess' = Len(out.procs) - 1
          /\ ffmpegProcess' = Len(out.procs)
          /\ crashed' = out.throws
          /\ res' = [res EXCEPT ![j].started = TRUE, ![j].videoId = videoId]
  /\ UNCHANGED <<stops, jobs>>
  /\ UNCHANGED others

\* ffmpegProcess.on("close")
D_ffClose(p) ==
  /\ ~crashed
  /\ procs[p].kind = "ff"
  /\ procs[p].exited
  /\ ~procs[p].closeSeen
  /\ res' = [res EXCEPT ![procs[p].job] = ResEnd(@)]
  /\ procs' = cleanup([procs EXCEPT ![p].closeSeen = TRUE])
  /\ ytDlpProcess' = Null
  /\ ffmpegProcess' = Null
  /\ UNCHANGED <<crashed, stops, jobs>>
  /\ UNCHANGED others

\* ytDlpProcess.on("close")
D_ytClose(p) ==
  /\ ~crashed
  /\ procs[p].kind = "yt"
  /\ procs[p].exited
  /\ ~procs[p].closeSeen
  /\ res' = IF res[procs[p].job].headersSent THEN res
            ELSE [res EXCEPT ![procs[p].job] = ResSend(@, 500)]
  /\ procs' = cleanup([procs EXCEPT ![p].closeSeen = TRUE])
  /\ ytDlpProcess' = Null
  /\ ffmpegProcess' = Null
  /\ UNCHANGED <<crashed, stops, jobs>>
  /\ UNCHANGED others

\* part_000 registers no listener on the request or on the response: a client
\* disconnect runs none of its code.
\* The "data" listener of the transcoder's stdout, the two "error" listeners,
\* /stop-stream and its timers are those of server.js, line for line.
DirectNext ==
  \/ \E j \in Jobs, v \in {"", "a"} : D_audio(j, v)
  \/ \E p \in Pids : Server_ffmpegData(p)
  \/ \E p \in Pids : D_ffClose(p)
  \/ \E p \in Pids : D_ytClose(p)
  \/ \E p \in Pids : Server_procError(p)
  \/ \E p \in Pids, c \in {0, NoCode} : ProcExit(p, c)
  \/ stopStream
  \/ \E p \in Pids : stopTimer(p)

SpecDirect == Init /\ [][DirectNext]_vars

\* ================================================================ claims
OfJob(j) == {p \in Pids : procs[p].job = j}
Transcoders == {p \in Pids : procs[p].kind = "ff"}

\* The termination triggers a job has seen: its transcoder's stdout "end", a
\* process "error", its client's "close", and the /stop-stream requests.
Triggers(j) ==
  Cardinality({p \in OfJob(j) : procs[p].ended})
  + Cardinality({p \in OfJob(j) : procs[p].errored})
  + (IF res[j].closed THEN 1 ELSE 0)
  + stops

\* C1: with one /audio job, after two or more termination triggers every process
\* the job spawned has been sent SIGTERM exactly once.
C1_SigtermExactlyOnce ==
  (Len(procs) = 2 /\ ~res[2].started /\ Triggers(1) >= 2)
    => \A p \in OfJob(1) : procs[p].sigterm = 1

\* C2: the delays given to setTimeout by one reconnecting job are 1s, 2s, 4s, 8s,
\* 16s in that order, at most five of them; every re-invocation of
\* attemptStreaming consumes one of them, so there are at most five.
BackoffDelays == <<1000, 2000, 4000, 8000, 16000>>

C2_BoundedBackoff ==
  \A j \in Jobs :
    /\ Len(jobs[j].delays) <= 5
    /\ \A i \in 1..Len(jobs[j].delays) : jobs[j].delays[i] = BackoffDelays[i]
    /\ jobs[j].invocations > 0 =>
         (jobs[j].invocations - 1) + jobs[j].timers = Len(jobs[j].delays)

\* Five reconnects were scheduled, over three attempts, and the response has closed.
C2_Witness ==
  /\ jobs[1].delays = BackoffDelays
  /\ jobs[1].invocations = 3
  /\ res[1].closed

\* C3: at every instant at most one fetcher+transcoder pair of the reconnecting job
\* is live and not yet signalled for termination.
Unreleased(kind) ==
  {p \in Pids : procs[p].kind = kind /\ ~procs[p].exited /\ procs[p].sigterm = 0}

C3_OnePairAtATime ==
  Cardinality(Unreleased("yt")) <= 1 /\ Cardinality(Unreleased("ff")) <= 1

\* C4: while the response waits for "drain" after a write returned false, the
\* stdout of the transcoder whose chunk was written is paused.
C4_PausedUntilDrain ==
  \A j \in Jobs :
    (res[j].needDrain /\ ~res[j].closed) =>
      \A p \in Transcoders :
        (procs[p].job = j /\ procs[p].dataL /\ ~procs[p].ended) => procs[p].paused

\* C5: with no client disconnect and no process "error", once a transcoder's
\* stdout has ended the chunks written to its job's response are exactly the
\* chunks its stdout emitted, in order.
Emitted(p) == [i \in 1..procs[p].emitted |-> <<p, i>>]

C5_ByteExact ==
  ((\A j \in Jobs : ~res[j].closed) /\ (\A p \in Pids : ~procs[p].errored))
    => \A p \in Transcoders :
         procs[p].ended => res[procs[p].job].written = Emitted(p)

\* C8: a GET /audio with no videoId is answered 400, spawns nothing and leaves the
\* slots as they were.
C8_NoVideoId ==
  [][\A j \in Jobs :
       (~res[j].started /\ res'[j].started /\ res'[j].videoId = "")
         => /\ res'[j].status = 400
            /\ procs' = procs
            /\ ytDlpProcess' = ytDlpProcess
            /\ ffmpegProcess' = ffmpegProcess]_vars

\* A request without videoId was refused while another job's pair is in the slots.
C8_Witness ==
  /\ res[2].started
  /\ res[2].videoId = ""
  /\ res[2].status = 400
  /\ ytDlpProcess = 1
  /\ ffmpegProcess = 2
  /\ Len(procs) = 2

\* C10: after the client's connection has closed, no res.write, res.end or
\* res.send is made on that response.
C10_NoCallAfterClose ==
  \A j \in Jobs : ~res[j].late

Fetchers(j) == {p \in OfJob(j) : procs[p].kind = "yt"}

\* C6: a job with two or more sources has at most one fetcher running at any
\* instant, and the fetcher of a later source is not running while the fetcher of
\* an earlier source has not terminated.
C6_OneFetcherAtATime ==
  \A j \in Jobs :
    /\ Cardinality({p \in Fetchers(j) : ~procs[p].exited}) <= 1
    /\ \A p, q \in Fetchers(j) :
         (procs[p].src < procs[q].src /\ ~procs[q].exited) => procs[p].exited

FetchedOk(j, i) ==
  \E p \in Fetchers(j) : procs[p].src = i /\ procs[p].exited /\ procs[p].exitCode = 0

\* C7: a transcoder is spawned for a job only when every source of the job has a
\* fetcher that exited with code 0, and from the step in which a fetch of the job
\* fails on, no process is spawned for the job and nothing more is piped into its
\* response.
C7_FailFast ==
  [][\A j \in Jobs :
       /\ (Len(procs') > Len(procs) /\ procs'[Len(procs')].kind = "ff"
           /\ procs'[Len(procs')].job = j)
            => \A i \in DOMAIN jobs[j].urls : FetchedOk(j, i)
       /\ jobs'[j].fetchFailed
            => (Len(procs') = Len(procs) /\ res'[j].pipes = res[j].pipes)]_vars

\* C9: a request whose every source is in the cache spawns no process, in the
\* request's step or later, and the response is fed from exactly the cached files
\* of its sources.
C9_CacheHit ==
  [][\A j \in Jobs :
       /\ (/\ ~res[j].started
           /\ res'[j].started
           /\ jobs'[j].urls # <<>>
           /\ \A i \in DOMAIN jobs'[j].urls : jobs'[j].urls[i] \in cache)
            => /\ procs' = procs
               /\ jobs'[j].step = "done"
               /\ res'[j].pipes = jobs'[j].urls
       /\ (jobs[j].step = "done" /\ OfJob(j) = {})
            => /\ procs' = procs
               /\ res'[j].pipes = res[j].pipes
               /\ \A k \in DOMAIN res'[j].written : res'[j].written[k][1] = 0]_vars

C9_Witness ==
  /\ res[1].started
  /\ jobs[1].urls = <<"a", "b">>
  /\ procs = <<>>
  /\ res[1].pipes = jobs[1].urls
  /\ res[1].pipesDone = 2
  /\ res[1].closed

\* C11: in the step in which a job's response closes (the client has gone), every
\* process of the job that is still running is sent a termination signal.
C11_DisconnectTerminates ==
  [][\A j \in Jobs :
       (~res[j].closed /\ res'[j].closed)
         => \A p \in OfJob(j) :
              ~procs[p].exited => procs'[p].sigterm + procs'[p].sigkill > 0]_vars

\* The triggers that belong to job j: its client's close, an "error" of one of its
\* processes, the "end" of its transcoder's stdout.
OwnTrigger(j) ==
  \/ res[j].closed
  \/ \E p \in OfJob(j) : procs[p].errored \/ procs[p].ended

\* C12: with two concurrent jobs, a process is signalled or loses its listeners
\* only through a trigger of its own job (or /stop-stream), and once a job's
\* client has closed every process the job spawned has been signalled.
C12_NoCrossJobRelease ==
  \A j \in Jobs :
    /\ \A p \in OfJob(j) :
         (procs[p].sigterm > 0 \/ (procs[p].kind = "ff" /\ ~procs[p].dataL))
           => (OwnTrigger(j) \/ stops > 0)
    /\ res[j].closed => \A p \in OfJob(j) : procs[p].sigterm > 0

\* C13: after a fetcher or transcoder "error", a response on which no chunk had
\* been written carries status 500; a response on which a chunk had been written
\* keeps its status and is ended, and the handler's attempt to send does not throw.
C13_ErrorResponse ==
  \A p \in Pids :
    procs[p].errored =>
      IF res[procs[p].job].written = <<>>
      THEN res[procs[p].job].status = 500
      ELSE /\ ~crashed
           /\ res[procs[p].job].status = 200
           /\ res[procs[p].job].finished

\* A step of one of the four terminal listeners of job j (transcoder "close",
\* response "close", response "error", transcoder "error" that got past its send).
TerminalStep(j) ==
  /\ jobs[j].listeners > 0
  /\ \/ res'[j].closed # res[j].closed
     \/ res'[j].errored # res[j].errored
     \/ \E p \in OfJob(j) :
          /\ procs[p].kind = "ff"
          /\ \/ procs'[p].closeSeen # procs[p].closeSeen
             \/ (procs'[p].errored # procs[p].errored /\ ~res[j].headersSent)

\* C14: whichever terminal listeners of a multi-source job fire, and however many,
\* no listener raises an error: a file that an earlier listener removed is not a
\* failure of the later one.
C14_IdempotentUnlink ==
  [][\A j \in Jobs : TerminalStep(j) => ~crashed']_vars

TerminalOutcome(j) ==
  \/ jobs[j].all = "rejected"
  \/ res[j].closed
  \/ \E p \in OfJob(j) : procs[p].kind = "ff" /\ (procs[p].closeSeen \/ procs[p].errored)

\* C15: once a multi-source job has reached a terminal outcome, no temporary audio
\* file and no concat list file is left.
C15_TempFilesDeleted ==
  \A j \in Jobs : TerminalOutcome(j) => files = {}

\* C16: a process that has been sent SIGTERM and has not exited is covered by a
\* grace timer that is still pending, or has been sent SIGKILL when its timer
\* expired; and SIGKILL is only ever sent by an expiring timer to a process
\* whose exitCode is still null.
C16_GraceThenKill ==
  /\ \A p \in Pids :
       (procs[p].sigterm > 0 /\ ~procs[p].exited)
         => (procs[p].timers > 0 \/ procs[p].sigkill > 0)
  /\ \A p \in Pids : procs[p].sigkill > 0 => procs[p].exitCode = NoCode

\* C17: a request to the multi-source endpoint that carries exactly one source
\* identifier is answered with a 4xx status and no process is ever spawned for it.
C17_SingleSourceRejected ==
  \A j \in Jobs :
    Len(jobs[j].urls) = 1
      => (res[j].status \in 400..499 /\ OfJob(j) = {})

\* cleanup has released job j's handles: its transcoder's "data" listener is gone.
Released(j) == \E p \in OfJob(j) : procs[p].kind = "ff" /\ ~procs[p].dataL

\* C18: once cleanup has released a job's handles, no callback of the job writes
\* to or ends the job's response, or throws on a nulled slot.
C18_NoLateCallback ==
  [][\A j \in Jobs :
       Released(j)
         => /\ res'[j].finals = res[j].finals
            /\ res'[j].written = res[j].written
            /\ ~crashed']_vars

\* C19: once the stdout of a transcoder has ended after a chunk was written to the
\* job's response, the response has been ended and the transcoder released.
C19_EndEndsResponse ==
  \A p \in Transcoders :
    (procs[p].ended /\ res[procs[p].job].written # <<>>)
      => (res[procs[p].job].finished /\ procs[p].sigterm > 0)

\* C20: every /audio request that carries a videoId has, at every moment of its
\* life and whatever happened to it, exactly one fetcher and exactly one transcoder
\* spawned for it.
C20_OnePairPerJob ==
  \A j \in Jobs :
    (res[j].started /\ res[j].videoId # "")
      => /\ Cardinality(Fetchers(j)) = 1
         /\ Cardinality(OfJob(j) \cap Transcoders) = 1

\* Two jobs have run to their end: the first was answered 500 after its fetcher
\* closed, the second streamed a chunk and was ended; four processes in all.
C20_Witness ==
  /\ res[1].status = 500
  /\ res[2].written # <<>>
  /\ res[2].finished
  /\ \A p \in Pids : procs[p].exited /\ procs[p].closeSeen
  /\ Len(procs) = 4

\* C21: a job with N >= 2 sources has spawned exactly N fetchers, whether its
\* fetches succeeded or failed.
C21_ExactlyNFetchers ==
  \A j \in Jobs :
    Len(jobs[j].urls) >= 2 => Cardinality(Fetchers(j)) = Len(jobs[j].urls)

\* The path fetcher p writes: audio<index>, the index being the source's position.
AudioPath(p) == procs[p].src

\* C22: the fetchers of two different jobs never write the same audio file path,
\* and two jobs never both write the concat list file.
C22_FilesOwnedByOneJob ==
  /\ \A p, q \in Pids :
       (procs[p].kind = "yt" /\ procs[q].kind = "yt" /\ procs[p].job # procs[q].job)
         => AudioPath(p) # AudioPath(q)
  /\ \A j, k \in Jobs :
       (j # k /\ Len(jobs[j].urls) > 1 /\ Len(jobs[k].urls) > 1)
         => ~(jobs[j].all = "resolved" /\ jobs[k].all = "resolved")


\* C23: a cache file comes to exist for a key only in a step at whose end a
\* transcoder for that key has exited with code 0; a fetch or transcode that is
\* in progress or has failed leaves no file a lookup would find.
C23_CachedOnlyOnSuccess ==
  [][\A k \in cache' \ cache :
       \E p \in DOMAIN procs' :
         /\ procs'[p].kind = "ff"
         /\ jobs'[procs'[p].job].urls[procs'[p].src] = k
         /\ procs'[p].exited
         /\ procs'[p].exitCode = 0]_vars


\* C24: the step that handles the close of a fetcher that exited with code 0
\* leaves the job's response as it was (no 500 is sent) and neither signals the
\* job's transcoder nor detaches the listener of its output.
C24_CleanExitIsNoFailure ==
  [][\A p \in Pids :
       (/\ procs[p].kind = "yt"
        /\ procs[p].exited
        /\ procs[p].exitCode = 0
        /\ ~procs[p].errored
        /\ ~procs[p].closeSeen
        /\ procs'[p].closeSeen)
         => /\ res'[procs[p].job] = res[procs[p].job]
            /\ \A q \in Pids :
                 (procs[q].kind = "ff" /\ procs[q].job = procs[p].job)
                   => /\ procs'[q].sigterm = procs[q].sigterm
                      /\ procs'[q].dataL = procs[q].dataL]_vars


\* C25: once a multi-source job has failed (one source exhausted its retries, the
\* catch sent 500 and ran cleanup), no step spawns a fetcher or a transcoder for
\* that job.
C25_NoSpawnAfterFailure ==
  [][\A j \in Jobs :
       (jobs[j].all = "rejected" /\ jobs[j].fetchFailed)
         => \A p \in DOMAIN procs' : procs'[p].job = j => p \in DOMAIN procs]_vars


\* C26: the response of a request is finalised at most once: the calls of res.end
\* and res.send made on it number at most one.
C26_FinalisedAtMostOnce ==
  \A j \in Jobs : res[j].finals <= 1


\* The calls of downloadAudio that the retry loop of source i of job j has made:
\* each call spawns one fetcher.
Calls(j, i) == {p \in Fetchers(j) : procs[p].src = i}

\* The promise of the call that spawned p has rejected, resolved, settled.
Failed(p) == procs[p].errored \/ (procs[p].closeSeen /\ procs[p].exitCode # 0)

Succeeded(p) == ~procs[p].errored /\ procs[p].closeSeen /\ procs[p].exitCode = 0

Settled(p) == Failed(p) \/ Succeeded(p)

\* C27: the retry loop of a source calls downloadAudio at most 3 times, one call
\* after the other: every call but the latest has failed, the latest is unsettled
\* while the loop runs, is the successful one when the loop returned (no call
\* follows a success), and is the failed third one when the loop threw.
C27_RetryAtMostThrice ==
  \A j \in Jobs : \A i \in DOMAIN jobs[j].tries :
    /\ Cardinality(Calls(j, i)) = jobs[j].tries[i]
    /\ jobs[j].tries[i] <= retries
    /\ \A p, q \in Calls(j, i) : p < q => Failed(p)
    /\ \A q \in Calls(j, i) :
         (\A p \in Calls(j, i) : p <= q)
           => /\ jobs[j].srcState[i] = "pending" => ~Settled(q)
              /\ jobs[j].srcState[i] = "ok" => Succeeded(q)
              /\ jobs[j].srcState[i] = "failed"
                   => (Failed(q) /\ jobs[j].tries[i] = retries)

C27_Witness ==
  \E j \in Jobs :
    /\ Len(jobs[j].tries) = 2
    /\ jobs[j].srcState[1] = "failed"
    /\ Cardinality(Calls(j, 1)) = retries
    /\ jobs[j].srcState[2] = "ok"
    /\ Cardinality(Calls(j, 2)) = 2

====
